---------------------------- MODULE Spec2Model ----------------------------
(***************************************************************************)
(* Model of the volunteer dashboard scripts (src/app.py, src/app-old.py):  *)
(* the load step, the column resolver find_col, the text normaliser        *)
(* normalize_text, the gender-form unifier, and the aggregations           *)
(* (value_counts, age buckets, duplicate e-mails).                         *)
(*                                                                         *)
(* A string is a sequence of characters; a character is a one-letter       *)
(* string for ASCII, and a named token for the non-ASCII characters the    *)
(* model uses ("a_acute" is U+00E1, "o_stroke" is U+00F8, "comb_acute" is  *)
(* the combining mark U+0301).  A missing cell (NaN) is the value NaN.     *)
(***************************************************************************)
EXTENDS Integers, Sequences, FiniteSets, TLC

VARIABLES
    pc,             \* position of the run
    raw,            \* normaliser study: the input series
    canon,          \* normaliser study: normalize_text(raw)
    recanon,        \* normaliser study: normalize_text(canon)
    columns0,       \* resolver study: the header as first read
    ids,            \* resolver study: ids[k] is the place in columns0 of column k
    script,         \* "app" (src/app.py) or "app_old" (src/app-old.py)
    file_exists,    \* whether the CSV file is on disk
    file,           \* the table in the CSV file
    df,             \* the loaded DataFrame
    error_shown,    \* whether an error was put on the page
    cols,            \* col_country, col_nat, ... (column label or None)
    gender_map,     \* the feminine -> masculine replacements
    country_counts, \* value_counts of the country column
    nat_counts,     \* value_counts of the nationality column, top 20
    email_col,      \* the resolved e-mail column
    dupe_mask       \* per row: a duplicate, non-blank e-mail

normVars == <<raw, canon, recanon>>
headVars == <<columns0, ids>>
runVars == <<script, file_exists, file, error_shown, gender_map,
             country_counts, nat_counts, email_col, dupe_mask>>
vars == <<pc, df, cols, normVars, headVars, runVars>>

Range(s) == {s[i] : i \in 1..Len(s)}

(***************************************************************************)
(* Characters and the Python string methods the scripts call.              *)
(***************************************************************************)
LowerLetters ==
    <<"a","b","c","d","e","f","g","h","i","j","k","l","m",
      "n","o","p","q","r","s","t","u","v","w","x","y","z">>
UpperLetters ==
    <<"A","B","C","D","E","F","G","H","I","J","K","L","M",
      "N","O","P","Q","R","S","T","U","V","W","X","Y","Z">>
LowerAccented == <<"a_acute", "e_acute", "i_acute", "o_acute", "u_acute">>
UpperAccented == <<"A_acute", "E_acute", "I_acute", "O_acute", "U_acute">>
AccentBase == <<"a", "e", "i", "o", "u">>
AsciiSymbols == {" ", "@", "."}
Whitespace == {" "}
AsciiChars == Range(LowerLetters) \cup Range(UpperLetters) \cup AsciiSymbols

IndexOf(seq, c) == CHOOSE i \in 1..Len(seq) : seq[i] = c

\* The missing cell, and the literal that fills it.
NaN == <<"<NaN>">>
SinDato == <<"S","i","n"," ","d","a","t","o">>

LowerCased == Range(LowerLetters) \cup Range(LowerAccented) \cup {"o_stroke"}
UpperCased == Range(UpperLetters) \cup Range(UpperAccented) \cup {"O_stroke"}

\* The lower form of each upper-case character, and the reverse.
ToLower ==
    [c \in UpperCased |->
        IF c \in Range(UpperLetters) THEN LowerLetters[IndexOf(UpperLetters, c)]
        ELSE IF c \in Range(UpperAccented) THEN LowerAccented[IndexOf(UpperAccented, c)]
        ELSE "o_stroke"]
ToUpper == [c \in LowerCased |-> CHOOSE u \in UpperCased : ToLower[u] = c]

\* str.lower() on one character.
lower_char(c) == IF c \in UpperCased THEN ToLower[c] ELSE c

\* str.upper() on one character (title() uses it for a word's first letter).
upper_char(c) == IF c \in LowerCased THEN ToUpper[c] ELSE c

\* A cased character: one that has a lower or an upper form.
is_cased(c) == c \in LowerCased \/ c \in UpperCased

\* The NFKD decomposition of each accented letter: its base letter followed
\* by the combining mark.
Decomposition ==
    [c \in Range(LowerAccented) \cup Range(UpperAccented) |->
        IF c \in Range(LowerAccented)
        THEN <<AccentBase[IndexOf(LowerAccented, c)], "comb_acute">>
        ELSE <<ToUpper[AccentBase[IndexOf(UpperAccented, c)]], "comb_acute">>]

\* unicodedata.normalize("NFKD", c) for one character; the stroked o has no
\* decomposition.
nfkd_char(c) == IF c \in DOMAIN Decomposition THEN Decomposition[c] ELSE <<c>>

\* Series.str.strip().
str_strip_none(s) == s
str_strip(s) ==
    LET keep == {i \in 1..Len(s) : s[i] \notin Whitespace}
    IN  IF keep = {} THEN <<>>
        ELSE SubSeq(s, CHOOSE i \in keep : \A j \in keep : i <= j,
                       CHOOSE i \in keep : \A j \in keep : i >= j)

\* Series.str.lower().
str_lower(s) == [i \in 1..Len(s) |-> lower_char(s[i])]

RECURSIVE nfkd(_)
\* Series.apply(lambda x: unicodedata.normalize("NFKD", x)).
nfkd(s) == IF s = <<>> THEN <<>> ELSE nfkd_char(Head(s)) \o nfkd(Tail(s))

IsAsciiChar(c) == c \in AsciiChars
\* Series.str.encode("ascii", errors="ignore").str.decode("utf-8").
encode_ascii_ignore(s) == SelectSeq(s, IsAsciiChar)

\* Series.str.title(): a cased character is upper-cased after an uncased
\* one (or at the start) and lower-cased after a cased one.
str_title(s) ==
    [i \in 1..Len(s) |->
        IF i = 1 \/ ~is_cased(s[i - 1]) THEN upper_char(s[i]) ELSE lower_char(s[i])]

\* Series.fillna("Sin dato").astype(str) on one cell.
fillna_sin_dato(v) == IF v = NaN THEN SinDato ELSE v

\* normalize_text on one cell: steps 1 to 5 in order.
normalize_value(v) ==
    str_title(encode_ascii_ignore(nfkd(str_lower(str_strip(fillna_sin_dato(v))))))

\* normalize_text(col): the steps are element-wise, the index is kept.
normalize_text(col) == [i \in 1..Len(col) |-> normalize_value(col[i])]

(***************************************************************************)
(* The table and the column resolver.                                      *)
(***************************************************************************)
\* Python's None, as find_col returns it.
None == <<"<None>">>

\* A DataFrame: its column labels in table order and, per column, its series.
NoTable == [columns |-> <<>>, data |-> <<>>]
Column(t, label) == t.data[IndexOf(t.columns, label)]
NRows(t) == IF t.data = <<>> THEN 0 ELSE Len(t.data[1])

\* "s in low": s occurs in low as a contiguous run.
contains(low, s) ==
    \E k \in 0..(Len(low) - Len(s)) : \A n \in 1..Len(s) : low[k + n] = s[n]

\* all(s in low for s in substrings)
all_in(low, substrings) ==
    \A n \in 1..Len(substrings) : contains(low, substrings[n])

RECURSIVE find_col_from(_, _, _)
\* the loop of find_col from column k on
find_col_from(columns, substrings, k) ==
    IF k > Len(columns) THEN None
    ELSE IF all_in(str_lower(columns[k]), substrings) THEN columns[k]
    ELSE find_col_from(columns, substrings, k + 1)

\* find_col without .lower(): a case-sensitive match
find_col_case_sensitive(columns, substrings) ==
    LET hit == {k \in 1..Len(columns) : all_in(columns[k], substrings)}
    IN  IF hit = {} THEN None
        ELSE columns[CHOOSE k \in hit : \A j \in hit : k <= j]

\* find_col that keeps the last match instead of returning the first
find_col_last(columns, substrings) ==
    LET hit == {k \in 1..Len(columns) : all_in(str_lower(columns[k]), substrings)}
    IN  IF hit = {} THEN None
        ELSE columns[CHOOSE k \in hit : \A j \in hit : k >= j]

\* find_col(substrings), reading df.columns
find_col(columns, substrings) == find_col_from(columns, substrings, 1)

\* Python's "a or b" on find_col results: b when a is None or empty.
py_or(a, b) == IF a = None \/ a = <<>> THEN b ELSE a

w_pais_acc == <<"p","a","i_acute","s">>
w_pais == <<"p","a","i","s">>
w_residencia == <<"r","e","s","i","d","e","n","c","i","a">>
w_nacionalidad == <<"n","a","c","i","o","n","a","l","i","d","a","d">>
w_fecha == <<"f","e","c","h","a">>
w_nacimiento == <<"n","a","c","i","m","i","e","n","t","o">>
w_sexo == <<"s","e","x","o">>
w_talla == <<"t","a","l","l","a">>
w_camisa == <<"c","a","m","i","s","a">>
w_disponibilidad == <<"d","i","s","p","o","n","i","b","i","l","i","d","a","d">>
w_horario == <<"h","o","r","a","r","i","o">>
w_seguro == <<"s","e","g","u","r","o">>
w_correo == <<"c","o","r","r","e","o">>
w_electronico == <<"e","l","e","c","t","r","o_acute","n","i","c","o">>
w_email == <<"e","m","a","i","l">>

\* The seven bindings made right after the load.
resolve_columns(columns) ==
    [col_country   |-> py_or(find_col(columns, <<w_pais_acc, w_residencia>>),
                             find_col(columns, <<w_pais, w_residencia>>)),
     col_nat       |-> find_col(columns, <<w_nacionalidad>>),
     col_dob       |-> find_col(columns, <<w_fecha, w_nacimiento>>),
     col_gender    |-> find_col(columns, <<w_sexo>>),
     col_shirt     |-> find_col(columns, <<w_talla, w_camisa>>),
     col_avail     |-> find_col(columns, <<w_disponibilidad, w_horario>>),
     col_insurance |-> find_col(columns, <<w_seguro>>)]

\* email_col, bound where the duplicate check starts
resolve_email(columns) ==
    py_or(find_col(columns, <<w_correo, w_electronico>>),
          find_col(columns, <<w_email>>))

Roles == {"col_country", "col_nat", "col_dob", "col_gender", "col_shirt",
          "col_avail", "col_insurance"}
Unresolved == [r \in Roles |-> None]

\* What each part of the model holds while another part runs.
IdleNorm == raw = <<>> /\ canon = <<>> /\ recanon = <<>>
IdleHead == columns0 = <<>> /\ ids = <<>>
IdleRun ==
    /\ script = "app"
    /\ file_exists = TRUE
    /\ file = NoTable
    /\ error_shown = FALSE
    /\ gender_map = {}
    /\ country_counts = <<>>
    /\ nat_counts = <<>>
    /\ email_col = None
    /\ dupe_mask = <<>>

(***************************************************************************)
(* Normaliser study: a two-row series whose second row is edited into the  *)
(* variants of the first (letter case, accents, surrounding whitespace),   *)
(* then normalised, then normalised again.                                 *)
(***************************************************************************)
MaxLen == 3

\* Seeds: every non-empty string over these characters up to MaxLen (an
\* empty CSV field is read as NaN, never as ""), and NaN.
SeedAlphabet == {"a", " ", "o_stroke"}
Strings(alphabet, n) == UNION {[1..k -> alphabet] : k \in 1..n}
Seeds == Strings(SeedAlphabet, MaxLen) \cup {NaN}

ExampleSeries ==
    << <<" "," ","M","E_acute","X","I","C","O"," ">>, <<"m","e","x","i","c","o">> >>
Mexico == <<"M","e","x","i","c","o">>

\* One edit of a character's case / accent (the character itself if it has
\* no other form).
toggle_case(c) == IF lower_char(c) # c THEN lower_char(c) ELSE upper_char(c)
toggle_accent(c) ==
    IF c \in DOMAIN Decomposition THEN Decomposition[c][1]
    ELSE IF \E d \in DOMAIN Decomposition : Decomposition[d][1] = c
    THEN CHOOSE d \in DOMAIN Decomposition : Decomposition[d][1] = c
    ELSE c

InitNorm ==
    /\ pc = "raw"
    /\ raw \in {<<x, x>> : x \in Seeds} \cup {ExampleSeries}
    /\ canon = <<>>
    /\ recanon = <<>>
    /\ IdleHead
    /\ IdleRun
    /\ df = NoTable
    /\ cols = Unresolved

Editable == pc = "raw" /\ raw[2] # NaN

ToggleCase(i) ==
    /\ Editable
    /\ toggle_case(raw[2][i]) # raw[2][i]
    /\ raw' = [raw EXCEPT ![2][i] = toggle_case(@)]
    /\ UNCHANGED <<pc, canon, recanon, df, cols, headVars, runVars>>

ToggleAccent(i) ==
    /\ Editable
    /\ toggle_accent(raw[2][i]) # raw[2][i]
    /\ raw' = [raw EXCEPT ![2][i] = toggle_accent(@)]
    /\ UNCHANGED <<pc, canon, recanon, df, cols, headVars, runVars>>

PadLeft ==
    /\ Editable
    /\ Len(raw[2]) < MaxLen
    /\ raw' = [raw EXCEPT ![2] = <<" ">> \o @]
    /\ UNCHANGED <<pc, canon, recanon, df, cols, headVars, runVars>>

PadRight ==
    /\ Editable
    /\ Len(raw[2]) < MaxLen
    /\ raw' = [raw EXCEPT ![2] = Append(@, " ")]
    /\ UNCHANGED <<pc, canon, recanon, df, cols, headVars, runVars>>

TrimLeft ==
    /\ Editable
    /\ Len(raw[2]) > 1
    /\ Head(raw[2]) \in Whitespace
    /\ raw' = [raw EXCEPT ![2] = Tail(@)]
    /\ UNCHANGED <<pc, canon, recanon, df, cols, headVars, runVars>>

TrimRight ==
    /\ Editable
    /\ Len(raw[2]) > 1
    /\ raw[2][Len(raw[2])] \in Whitespace
    /\ raw' = [raw EXCEPT ![2] = SubSeq(@, 1, Len(@) - 1)]
    /\ UNCHANGED <<pc, canon, recanon, df, cols, headVars, runVars>>

\* df[c] = normalize_text(df[c])
Normalize ==
    /\ pc = "raw"
    /\ canon' = normalize_text(raw)
    /\ pc' = "normalized"
    /\ UNCHANGED <<raw, recanon, df, cols, headVars, runVars>>

\* the normaliser applied to its own output
Renormalize ==
    /\ pc = "normalized"
    /\ recanon' = normalize_text(canon)
    /\ pc' = "renormalized"
    /\ UNCHANGED <<raw, canon, df, cols, headVars, runVars>>

NextNorm ==
    \/ \E i \in DOMAIN raw[2] : ToggleCase(i)
    \/ \E i \in DOMAIN raw[2] : ToggleAccent(i)
    \/ PadLeft
    \/ PadRight
    \/ TrimLeft
    \/ TrimRight
    \/ Normalize
    \/ Renormalize

SpecNorm == InitNorm /\ [][NextNorm]_vars

\* C1: rows that differ only by letter case, accents or surrounding
\* whitespace get the same canonical value ("  MEXICO " with an accented E
\* and "mexico" both give "Mexico"); the output has the input's length, and
\* each output row is the canonical value of the input row at the same
\* position.
C1_SameCanonical ==
    pc # "raw" =>
        /\ Len(canon) = Len(raw)
        /\ canon[1] = canon[2]
        /\ \A i \in 1..Len(raw) : canon[i] = normalize_text(<<raw[i]>>)[1]
        /\ raw = ExampleSeries => canon = <<Mexico, Mexico>>

C1_Witness ==
    /\ pc = "normalized"
    /\ raw = ExampleSeries
    /\ canon[1] = Mexico

\* C2: normalize_text is idempotent on every value the pipeline can read.
C2_Idempotent == pc = "renormalized" => recanon = canon

\* C8: every missing or blank raw value becomes the one sentinel, and no
\* canonical value is empty.
C8_BlankToSentinel ==
    pc # "raw" =>
        \A i \in 1..Len(raw) :
            /\ (raw[i] = NaN \/ str_strip(raw[i]) = <<>>) => canon[i] = normalize_value(NaN)
            /\ canon[i] # <<>>

(***************************************************************************)
(* Resolver study: a header whose columns are reordered and re-cased, and  *)
(* then resolved as the script resolves it after the load.                 *)
(***************************************************************************)
MaxCols == 3

HeaderPool ==
    << <<"P","a","i_acute","s"," ","d","e"," ","r","e","s","i","d","e","n","c","i","a">>,
       <<"P","a","i","s"," ","d","e"," ","r","e","s","i","d","e","n","c","i","a">>,
       <<"N","a","c","i","o","n","a","l","i","d","a","d">>,
       <<"O","t","r","a"," ","n","a","c","i","o","n","a","l","i","d","a","d">>,
       <<"S","e","x","o">>,
       <<"N","o","m","b","r","e">> >>

RECURSIVE Pick(_, _)
\* The labels of HeaderPool whose index is in S, in pool order.
Pick(S, k) ==
    IF k > Len(HeaderPool) THEN <<>>
    ELSE (IF k \in S THEN <<HeaderPool[k]>> ELSE <<>>) \o Pick(S, k + 1)

Headers ==
    {Pick(S, 1) : S \in {T \in SUBSET (1..Len(HeaderPool)) : Cardinality(T) <= MaxCols}}

\* A header with no rows under it.
EmptyTable(columns) == [columns |-> columns, data |-> [k \in 1..Len(columns) |-> <<>>]]

\* Each column at its own place.
OwnPlaces(columns) == [k \in 1..Len(columns) |-> k]

str_upper(s) == [i \in 1..Len(s) |-> upper_char(s[i])]

InitCols ==
    /\ pc = "resolve"
    /\ columns0 \in Headers
    /\ ids = OwnPlaces(columns0)
    /\ df = EmptyTable(columns0)
    /\ cols = Unresolved
    /\ IdleNorm
    /\ IdleRun

\* The export lists columns k and k+1 the other way round.
SwapColumns(k) ==
    /\ pc = "resolve"
    /\ k + 1 <= Len(df.columns)
    /\ LET sw(s) == [s EXCEPT ![k] = s[k + 1], ![k + 1] = s[k]]
       IN  /\ df' = [df EXCEPT !.columns = sw(@)]
           /\ ids' = sw(ids)
    /\ UNCHANGED <<pc, cols, columns0, normVars, runVars>>

\* The export writes column k's label in upper case, or in lower case.
RecaseColumn(k, upper) ==
    /\ pc = "resolve"
    /\ LET new == IF upper THEN str_upper(df.columns[k]) ELSE str_lower(df.columns[k])
       IN  /\ new # df.columns[k]
           /\ df' = [df EXCEPT !.columns[k] = new]
    /\ UNCHANGED <<pc, cols, headVars, normVars, runVars>>

\* col_country = find_col(...) or find_col(...); col_nat = ...; ...
ResolveColumns ==
    /\ pc = "resolve"
    /\ cols' = resolve_columns(df.columns)
    /\ pc' = "normalize"
    /\ UNCHANGED <<df, headVars, normVars, runVars>>

NextCols ==
    \/ \E k \in DOMAIN df.columns : SwapColumns(k)
    \/ \E k \in DOMAIN df.columns, upper \in BOOLEAN : RecaseColumn(k, upper)
    \/ ResolveColumns

SpecCols == InitCols /\ [][NextCols]_vars

\* The substring sets of each role, in the order they are tried.
Alternatives ==
    [col_country   |-> << <<w_pais_acc, w_residencia>>, <<w_pais, w_residencia>> >>,
     col_nat       |-> << <<w_nacionalidad>> >>,
     col_dob       |-> << <<w_fecha, w_nacimiento>> >>,
     col_gender    |-> << <<w_sexo>> >>,
     col_shirt     |-> << <<w_talla, w_camisa>> >>,
     col_avail     |-> << <<w_disponibilidad, w_horario>> >>,
     col_insurance |-> << <<w_seguro>> >>]

\* The places of the columns whose lower-cased label holds every substring.
Matching(columns, substrings) ==
    {k \in 1..Len(columns) :
        \A n \in 1..Len(substrings) : contains(str_lower(columns[k]), substrings[n])}

\* The places that decide role r: those of the first substring set that
\* matches at all (none if no set matches).
Deciding(columns, r) ==
    LET alts == Alternatives[r]
        live == {a \in 1..Len(alts) : Matching(columns, alts[a]) # {}}
    IN  IF live = {} THEN {}
        ELSE Matching(columns, alts[CHOOSE a \in live : \A b \in live : a <= b])

\* The column of the first header (0: none) that label b of header columns is.
BoundId(b, columns, idmap) ==
    IF b = None THEN 0 ELSE idmap[IndexOf(columns, b)]

Resolved == pc = "normalize"

\* C3: each role is bound to the first column, in table order, whose
\* lower-cased label holds every substring of the role's set; a later set
\* of the role is used only when no column matches an earlier one; the
\* role is None when nothing matches.
C3_FirstMatch ==
    Resolved =>
        \A r \in Roles :
            LET d == Deciding(df.columns, r)
            IN  IF d = {} THEN cols[r] = None
                ELSE /\ cols[r] # None
                     /\ \E k \in d : cols[r] = df.columns[k] /\ \A j \in d : k <= j

C3_Witness ==
    /\ Resolved
    /\ Cardinality(Deciding(df.columns, "col_nat")) = 2
    /\ cols["col_nat"] = df.columns[1]
    /\ cols["col_gender"] = None
    /\ Matching(df.columns, Alternatives["col_country"][1]) = {}
    /\ cols["col_country"] # None

SameBinding ==
    LET cols0 == resolve_columns(columns0)
    IN  \A r \in Roles :
            BoundId(cols[r], df.columns, ids) = BoundId(cols0[r], columns0, OwnPlaces(columns0))

\* C4 as stated: whatever the order and the case of the labels, every role
\* is bound to the same underlying column.
C4_OrderAndCaseInvariant == Resolved => SameBinding

\* C4 amended: the binding does not depend on the case of the labels, and
\* does not depend on the column order when at most one column matches the
\* substring set that decides each role.
C4_CaseInvariant_OrderWhenUnique ==
    (/\ Resolved
     /\ \/ ids = OwnPlaces(columns0)
        \/ \A r \in Roles : Cardinality(Deciding(columns0, r)) <= 1)
    => SameBinding

C4_Witness ==
    /\ Resolved
    /\ ids # OwnPlaces(columns0)
    /\ df.columns[1] # columns0[ids[1]]
    /\ cols["col_nat"] # None
    /\ \A r \in Roles : Cardinality(Deciding(columns0, r)) <= 1

(***************************************************************************)
(* The run of a script on one CSV file.                                    *)
(***************************************************************************)
MaxRows == 3

L_pais == <<"P","a","i_acute","s"," ","d","e"," ","r","e","s","i","d","e","n","c","i","a">>
L_nacionalidad == <<"N","a","c","i","o","n","a","l","i","d","a","d">>
L_fecha == <<"F","e","c","h","a"," ","d","e"," ","n","a","c","i","m","i","e","n","t","o">>
L_email == <<"E","m","a","i","l">>
L_nombre == <<"N","o","m","b","r","e">>
L_country_of_residence ==
    <<"C","o","u","n","t","r","y"," ","O","f"," ","R","e","s","i","d","e","n","c","e">>
L_nationality == <<"N","a","t","i","o","n","a","l","i","t","y">>
L_age == <<"A","g","e">>
L_age_group == <<"A","g","e","G","r","o","u","p">>

Cubana == <<"C","u","b","a","n","a">>
Cubano == <<"C","u","b","a","n","o">>
Dominicana == <<"D","o","m","i","n","i","c","a","n","a">>
Dominicano == <<"D","o","m","i","n","i","c","a","n","o">>
Cuba == <<"C","u","b","a">>
RepublicaDominicana ==
    <<"R","e","p","u","b","l","i","c","a"," ","D","o","m","i","n","i","c","a","n","a">>
RepublicaDominicanaAcc ==
    <<"R","e","p","u_acute","b","l","i","c","a"," ","D","o","m","i","n","i","c","a","n","a">>

\* Cells as the CSV holds them.  An empty field is NaN.
CountryPool ==
    { <<"M","e_acute","x","i","c","o">>, <<"m","e","x","i","c","o">>, Cuba,
      <<"r","e","p","u","b","l","i","c","a"," ","d","o","m","i","n","i","c","a","n","a">>,
      NaN }
NatPool ==
    { Cubana, Cubano, <<" ","C","U","B","A","N","A">>, <<"C","h","i","n","a">>,
      <<" ">>, NaN }
EmailPool ==
    { <<"a","@","x">>, <<" ","a","@","x"," ">>, <<"b","@","x">>, <<" ">>, NaN }

\* A date-of-birth cell that pd.to_datetime parses is written
\* <<"date", year, month, day>>; any other cell parses to NaT.
Date(y, m, d) == <<"date", y, m, d>>
NaT == <<"NaT">>
DobPool ==
    { Date(2007, 8, 1), Date(2007, 7, 1), Date(2010, 7, 22), Date(2010, 7, 21),
      Date(1925, 7, 21), Date(1925, 7, 22), Date(1975, 7, 21),
      <<"n","/","a">>, NaN }

SeriesOf(pool, n) == UNION {[1..k -> pool] : k \in 0..n}
OneColumn(label, pool) ==
    {[columns |-> <<label>>, data |-> <<s>>] : s \in SeriesOf(pool, MaxRows)}

ExampleABC ==
    [columns |-> <<L_pais>>,
     data |-> << << <<"A">>, <<"B">>, <<"A">>, <<"C">>, <<"B">>, <<"A">> >> >>]
ExampleDominican ==
    [columns |-> <<L_nacionalidad>>,
     data |-> << <<Dominicana, Dominicano, Dominicana, Dominicano, Dominicana>> >>]
ExampleEmails ==
    [columns |-> <<L_email>>,
     data |-> << << <<"a","@","x">>, NaN, <<"a","@","x">>, NaN >> >>]

ExampleTwoColumns ==
    [columns |-> <<L_pais, L_nacionalidad>>,
     data |-> << <<Cuba, <<"m","e","x","i","c","o">>, NaN>>, <<Cubana, Cubano, Cubana>> >>]

\* The files src/app.py is run on: one column of cells, or an example.
FilesApp ==
    OneColumn(L_pais, CountryPool) \cup OneColumn(L_nacionalidad, NatPool)
        \cup OneColumn(L_fecha, DobPool) \cup OneColumn(L_email, EmailPool)
        \cup {ExampleABC, ExampleDominican, ExampleEmails, ExampleTwoColumns}

\* The files src/app-old.py is run on: the two columns it reads by name (the
\* nationality column left empty), or a file without them.
FilesOld ==
    {[columns |-> <<L_country_of_residence, L_nationality>>,
      data |-> <<s, [i \in 1..Len(s) |-> NaN]>>] : s \in SeriesOf(CountryPool, MaxRows)}
        \cup {[columns |-> <<L_nombre>>, data |-> << <<>> >>]}

Init ==
    /\ pc = "load"
    /\ script \in {"app", "app_old"}
    /\ file_exists \in BOOLEAN
    /\ file \in (IF ~file_exists THEN {NoTable}
                 ELSE IF script = "app" THEN FilesApp ELSE FilesOld)
    /\ df = NoTable
    /\ cols = Unresolved
    /\ error_shown = FALSE
    /\ gender_map = {}
    /\ country_counts = <<>>
    /\ nat_counts = <<>>
    /\ email_col = None
    /\ dupe_mask = <<>>
    /\ IdleNorm
    /\ IdleHead

\* load_data of src/app.py: st.error and st.stop when the file is missing.
\* stop: the run ends here; error: a message is on the page.
load_data_no_stop(exists, f) ==
    IF ~exists THEN [error |-> TRUE, stop |-> FALSE, df |-> NoTable]
    ELSE [error |-> FALSE, stop |-> FALSE, df |-> f]
load_data(exists, f) ==
    IF ~exists THEN [error |-> TRUE, stop |-> TRUE, df |-> NoTable]
    ELSE [error |-> FALSE, stop |-> FALSE, df |-> f]

\* load_data of src/app-old.py: pd.read_csv raises FileNotFoundError, which
\* nothing catches: the run ends and Streamlit shows the exception.
old_load_data(exists, f) ==
    IF ~exists THEN [error |-> TRUE, stop |-> TRUE, df |-> NoTable]
    ELSE [error |-> FALSE, stop |-> FALSE, df |-> f]

\* df = load_data(FILE)
LoadData ==
    /\ pc = "load"
    /\ script = "app"
    /\ LET r == load_data(file_exists, file)
       IN  /\ error_shown' = r.error
           /\ df' = r.df
           /\ pc' = IF r.stop THEN "stopped" ELSE "resolve"
    /\ UNCHANGED <<cols, script, file_exists, file, gender_map, country_counts,
                   nat_counts, email_col, dupe_mask, normVars, headVars>>

\* df = load_data(path) of src/app-old.py
OldLoadData ==
    /\ pc = "load"
    /\ script = "app_old"
    /\ LET r == old_load_data(file_exists, file)
       IN  /\ error_shown' = r.error
           /\ df' = r.df
           /\ pc' = IF r.stop THEN "stopped" ELSE "old_country"
    /\ UNCHANGED <<cols, script, file_exists, file, gender_map, country_counts,
                   nat_counts, email_col, dupe_mask, normVars, headVars>>

\* df[label] = series: an existing column is replaced, a new one is appended.
set_column(t, label, series) ==
    IF \E k \in 1..Len(t.columns) : t.columns[k] = label
    THEN [t EXCEPT !.data[IndexOf(t.columns, label)] = series]
    ELSE [columns |-> Append(t.columns, label), data |-> Append(t.data, series)]

\* if col_country: df[col_country] = normalize_text(df[col_country])
\* if col_nat: df[col_nat] = normalize_text(df[col_nat])
NormalizeColumns ==
    /\ pc = "normalize"
    /\ LET d1 == IF cols.col_country # None
                 THEN set_column(df, cols.col_country,
                                 normalize_text(Column(df, cols.col_country)))
                 ELSE df
           d2 == IF cols.col_nat # None
                 THEN set_column(d1, cols.col_nat, normalize_text(Column(d1, cols.col_nat)))
                 ELSE d1
       IN  df' = d2
    /\ pc' = "unify"
    /\ UNCHANGED <<cols, normVars, headVars, runVars>>

ends_in_a(val) == val # <<>> /\ val[Len(val)] = "a"
\* val[:-1] + "o"
masc_of(val) == Append(SubSeq(val, 1, Len(val) - 1), "o")

\* the loop over nat_vals without the "masc in nat_vals" test
build_gender_map_unchecked(nat_vals) ==
    {<<val, masc_of(val)>> : val \in {v \in nat_vals : ends_in_a(v)}}

\* the loop over nat_vals that fills gender_map (a set of <<key, value>>)
build_gender_map(nat_vals) ==
    {<<val, masc_of(val)>> :
        val \in {v \in nat_vals : v # <<>> /\ ends_in_a(v) /\ masc_of(v) \in nat_vals}}

\* Series.replace(mapping): a cell equal to a key becomes the key's value.
replace(series, mapping) ==
    [i \in 1..Len(series) |->
        IF \E p \in mapping : p[1] = series[i]
        THEN (CHOOSE p \in mapping : p[1] = series[i])[2]
        ELSE series[i]]

\* if col_nat: nat_vals = unique(); gender_map = ...; replace(gender_map)
UnifyGender ==
    /\ pc = "unify"
    /\ IF cols.col_nat # None
       THEN LET m == build_gender_map(Range(Column(df, cols.col_nat)))
            IN  /\ gender_map' = m
                /\ df' = set_column(df, cols.col_nat, replace(Column(df, cols.col_nat), m))
       ELSE UNCHANGED <<gender_map, df>>
    /\ pc' = "mapping"
    /\ UNCHANGED <<cols, script, file_exists, file, error_shown, country_counts,
                   nat_counts, email_col, dupe_mask, normVars, headVars>>

\* mapping = {"Republica Dominicana": "República Dominicana"}
mapping == {<<RepublicaDominicana, RepublicaDominicanaAcc>>}

\* df[col_country].replace(mapping); df[col_nat].replace(mapping)
ApplyMapping ==
    /\ pc = "mapping"
    /\ LET d1 == IF cols.col_country # None
                 THEN set_column(df, cols.col_country,
                                 replace(Column(df, cols.col_country), mapping))
                 ELSE df
           d2 == IF cols.col_nat # None
                 THEN set_column(d1, cols.col_nat, replace(Column(d1, cols.col_nat), mapping))
                 ELSE d1
       IN  df' = d2
    /\ pc' = "country"
    /\ UNCHANGED <<cols, normVars, headVars, runVars>>

Count(series, v) == Cardinality({i \in 1..Len(series) : series[i] = v})

\* Series.value_counts(): one <<value, count>> per distinct non-missing
\* value, by descending count.  pandas sorts the counts with
\* Series.sort_values' default kind "quicksort", which is not stable: values
\* with equal counts may come out in any order, so every such order is an
\* outcome.
value_counts(series) ==
    LET vals == Range(series) \ {NaN}
        n == Cardinality(vals)
    IN  {[i \in 1..n |-> <<f[i], Count(series, f[i])>>] :
            f \in {g \in [1..n -> vals] :
                    /\ \A i, j \in 1..n : i # j => g[i] # g[j]
                    /\ \A i \in 1..n : i < n => Count(series, g[i]) >= Count(series, g[i + 1])}}

\* .head(n)
head(s, n) == SubSeq(s, 1, IF Len(s) < n THEN Len(s) ELSE n)

\* country_counts = df[col_country].value_counts()
CountCountries ==
    /\ pc = "country"
    /\ IF cols.col_country # None
       THEN country_counts' \in value_counts(Column(df, cols.col_country))
       ELSE UNCHANGED country_counts
    /\ pc' = "nationality"
    /\ UNCHANGED <<df, cols, script, file_exists, file, error_shown, gender_map,
                   nat_counts, email_col, dupe_mask, normVars, headVars>>

TopNat == 20

\* nat_counts = df[col_nat].value_counts().head(20)
CountNationalities ==
    /\ pc = "nationality"
    /\ IF cols.col_nat # None
       THEN nat_counts' \in {head(c, TopNat) : c \in value_counts(Column(df, cols.col_nat))}
       ELSE UNCHANGED nat_counts
    /\ pc' = "age"
    /\ UNCHANGED <<df, cols, script, file_exists, file, error_shown, gender_map,
                   country_counts, email_col, dupe_mask, normVars, headVars>>

\* today = datetime(2025, 7, 21)
today == [year |-> 2025, month |-> 7, day |-> 21]
bins == <<15, 18, 25, 35, 50, 100>>
labels == <<"15-18", "18-25", "25-35", "35-50", "50+">>
NoGroup == "NaN"
\* A missing Age; an Age of n years is <<n>>.
NoAge == <<>>

\* pd.to_datetime(cell, errors="coerce", dayfirst=True)
to_datetime(cell) == IF cell # <<>> /\ cell[1] = "date" THEN cell ELSE NaT

\* today.year - d.year - ((today.month, today.day) < (d.month, d.day))
age_of(d) ==
    IF d = NaT THEN NoAge
    ELSE <<today.year - d[2]
            - (IF today.month < d[3] \/ (today.month = d[3] /\ today.day < d[4])
               THEN 1 ELSE 0)>>

\* pd.cut(age, bins=bins, labels=labels, right=False) on one cell
cut(age) ==
    IF age = NoAge THEN NoGroup
    ELSE LET hit == {b \in 1..(Len(bins) - 1) : bins[b] <= age[1] /\ age[1] < bins[b + 1]}
         IN  IF hit = {} THEN NoGroup ELSE labels[CHOOSE b \in hit : TRUE]

\* if col_dob: df["Age"] = ...; df["AgeGroup"] = pd.cut(...)
AgeBuckets ==
    /\ pc = "age"
    /\ IF cols.col_dob # None
       THEN LET dob == [i \in 1..NRows(df) |-> to_datetime(Column(df, cols.col_dob)[i])]
                age == [i \in 1..NRows(df) |-> age_of(dob[i])]
                d1 == set_column(df, L_age, age)
            IN  df' = set_column(d1, L_age_group, [i \in 1..NRows(df) |-> cut(age[i])])
       ELSE UNCHANGED df
    /\ pc' = "email"
    /\ UNCHANGED <<cols, normVars, headVars, runVars>>

\* emails.duplicated(keep=False) with the blank rows counted as duplicates
dupe_mask_of_any(cells) ==
    LET emails == [i \in 1..Len(cells) |->
                      str_strip(IF cells[i] = NaN THEN <<>> ELSE cells[i])]
    IN  [i \in 1..Len(emails) |-> Count(emails, emails[i]) > 1]

\* emails = fillna("").astype(str).str.strip(); non_blank = emails != "";
\* dupe_mask = emails.duplicated(keep=False) & non_blank
dupe_mask_of(cells) ==
    LET emails == [i \in 1..Len(cells) |->
                      str_strip(IF cells[i] = NaN THEN <<>> ELSE cells[i])]
        non_blank == [i \in 1..Len(emails) |-> emails[i] # <<>>]
        duplicated == [i \in 1..Len(emails) |-> Count(emails, emails[i]) > 1]
    IN  [i \in 1..Len(emails) |-> duplicated[i] /\ non_blank[i]]

\* email_col = find_col(...) or find_col(...); if email_col: dupe_mask = ...
DuplicateEmails ==
    /\ pc = "email"
    /\ email_col' = resolve_email(df.columns)
    /\ IF email_col' # None
       THEN dupe_mask' = dupe_mask_of(Column(df, email_col'))
       ELSE UNCHANGED dupe_mask
    /\ pc' = "done"
    /\ UNCHANGED <<df, cols, script, file_exists, file, error_shown, gender_map,
                   country_counts, nat_counts, normVars, headVars>>

\* src/app-old.py: df["Country Of Residence"] and df["Nationality"] raise
\* KeyError when the file lacks them; otherwise
\* country_counts = df[...].dropna().value_counts().sort_values(ascending=False)
OldCountCountries ==
    /\ pc = "old_country"
    /\ IF /\ \E k \in 1..Len(df.columns) : df.columns[k] = L_country_of_residence
          /\ \E k \in 1..Len(df.columns) : df.columns[k] = L_nationality
       THEN /\ country_counts' \in value_counts(Column(df, L_country_of_residence))
            /\ pc' = "done"
            /\ UNCHANGED error_shown
       ELSE /\ error_shown' = TRUE
            /\ pc' = "stopped"
            /\ UNCHANGED country_counts
    /\ UNCHANGED <<df, cols, script, file_exists, file, gender_map,
                   nat_counts, email_col, dupe_mask, normVars, headVars>>

Next ==
    \/ LoadData
    \/ OldLoadData
    \/ ResolveColumns
    \/ NormalizeColumns
    \/ UnifyGender
    \/ ApplyMapping
    \/ CountCountries
    \/ CountNationalities
    \/ AgeBuckets
    \/ DuplicateEmails
    \/ OldCountCountries

Spec == Init /\ [][Next]_vars

(***************************************************************************)
(* Claims about the run.                                                   *)
(***************************************************************************)
\* The value with its final "a" replaced by "o".
WithO(v) == [v EXCEPT ![Len(v)] = "o"]
EndsInA(v) == Len(v) > 0 /\ v[Len(v)] = "a"

\* C5: the unification step replaces a row's value v by v with its final
\* "a" turned into "o" exactly when v ends in "a" and that counterpart is
\* among the values present before the step; other rows are unchanged (so
\* no value is remapped twice); the merged category counts the rows of both
\* forms (Dominicana 3 + Dominicano 2 gives Dominicano 5).
C5_UnifyStep ==
    [][(pc = "unify" /\ pc' = "mapping" /\ cols.col_nat # None) =>
        LET before == Column(df, cols.col_nat)
            after == Column(df', cols.col_nat)
            present == Range(before)
        IN  /\ Len(after) = Len(before)
            /\ \A i \in 1..Len(before) :
                   after[i] = IF EndsInA(before[i]) /\ WithO(before[i]) \in present
                              THEN WithO(before[i])
                              ELSE before[i]
            /\ \A v \in present :
                   (EndsInA(v) /\ WithO(v) \in present) =>
                       Count(after, WithO(v)) = Count(before, v) + Count(before, WithO(v))
            /\ file = ExampleDominican =>
                   Count(before, Dominicana) = 3 /\ Count(after, Dominicano) = 5
    ]_vars

C5_Witness ==
    /\ pc = "mapping"
    /\ file = ExampleDominican
    /\ gender_map = {<<Dominicana, Dominicano>>}
    /\ Count(Column(df, cols.col_nat), Dominicano) = 5

\* A lone feminine form is left as it is.
C5_WitnessAlone ==
    /\ pc = "mapping"
    /\ cols.col_nat # None
    /\ gender_map = {}
    /\ Range(Column(df, cols.col_nat)) = {Cubana}

AfterAge == pc \in {"email", "done"} /\ cols.col_dob # None

\* C6: every parseable date of birth gets its age in whole years and
\* exactly one bucket [lo, hi) of the partition, the one that holds the age
\* (2007-08-01 gives 17 in 15-18; 2007-07-01 gives 18 in 18-25).
C6_EveryAgeBucketed ==
    AfterAge =>
        \A i \in 1..NRows(df) :
            LET d == Column(file, cols.col_dob)[i]
                a == Column(df, L_age)[i]
                g == Column(df, L_age_group)[i]
            IN  d[1] = "date" =>
                    /\ a = <<2025 - d[2] - (IF <<d[3], d[4]>> \in
                                {<<m, n>> \in (1..12) \X (1..31) : m > 7 \/ (m = 7 /\ n > 21)}
                             THEN 1 ELSE 0)>>
                    /\ \E b \in 1..Len(labels) :
                           g = labels[b] /\ bins[b] <= a[1] /\ a[1] < bins[b + 1]
                    /\ d = Date(2007, 8, 1) => a = <<17>> /\ g = "15-18"
                    /\ d = Date(2007, 7, 1) => a = <<18>> /\ g = "18-25"

EmailsChecked == pc = "done" /\ script = "app" /\ email_col # None

\* The e-mail of row i of the file, trimmed; a missing one is blank.
Trimmed(i) ==
    LET c == Column(file, email_col)[i]
    IN  IF c = NaN THEN <<>> ELSE str_strip(c)

\* C7: a row is reported exactly when its trimmed e-mail is non-blank and
\* another row has the same trimmed e-mail; blank or missing e-mails are
\* never reported.
C7_DuplicatesExactly ==
    EmailsChecked =>
        /\ Len(dupe_mask) = NRows(file)
        /\ \A i \in 1..NRows(file) :
               dupe_mask[i] <=>
                   /\ Trimmed(i) # <<>>
                   /\ \E j \in 1..NRows(file) : j # i /\ Trimmed(j) = Trimmed(i)
        /\ file = ExampleEmails => dupe_mask = <<TRUE, FALSE, TRUE, FALSE>>

C7_Witness ==
    /\ EmailsChecked
    /\ file = ExampleEmails
    /\ dupe_mask = <<TRUE, FALSE, TRUE, FALSE>>

C9_WitnessOld == ~file_exists /\ pc = "stopped" /\ error_shown /\ script = "app_old"

CountriesCounted ==
    /\ script = "app"
    /\ pc \in {"nationality", "age", "email", "done"}
    /\ cols.col_country # None

FirstRow(series, v) == CHOOSE i \in 1..Len(series) : series[i] = v /\ \A j \in 1..(i - 1) : series[j] # v

RECURSIVE SumCounts(_)
SumCounts(c) == IF c = <<>> THEN 0 ELSE Head(c)[2] + SumCounts(Tail(c))

=============================================================================
